---- MODULE Spec2Model ----
(***************************************************************************)
(* FlatTree<T> (src/FlatTree.h), instantiated with T = int.                *)
(*                                                                         *)
(* The tree is the pair of vectors m_data / m_parent_index.  Node indices  *)
(* are 0-based as in the code; a TLA+ sequence is 1-based, so the node     *)
(* with index i is stored at position i + 1 (operator At).                 *)
(*                                                                         *)
(* Behaviour the C++ standard leaves undefined is a nondeterministic       *)
(* choice: an access past the end of a vector either lands in the spare    *)
(* capacity of the buffer (and is not observable in the live elements) or  *)
(* kills the process (status = "crashed"); a read through an iterator     *)
(* into a buffer the vector has left kills the process at once or reads    *)
(* on with whatever the freed buffer holds (see Outcome).  Operators that  *)
(* meet such behaviour yield the set of their possible outcomes.           *)
(* Unbounded recursion exhausts the stack and kills the process as well.   *)
(* assert() is compiled in, as in the test program src/main.cpp; a         *)
(* failing assert gives "aborted".                                         *)
(***************************************************************************)
EXTENDS Integers, Sequences, FiniteSets, TLC

VARIABLES m_data,          \* std::vector<T>           node values
          m_parent_index,  \* std::vector<std::size_t> parent index of every node
          status,          \* "ok" | "crashed" | "aborted" ("wrapped", "beyond": see remove_node)
          lastOp,          \* name of the last operation called
          lastArg,         \* its index argument
          lastVals,        \* the node values handed to it, or the one it returned
                           \* (Traverse: the execution policy and the visitor)
          lastRet,         \* "true" | "false" | "none" (no bool, or never returned)
          lastNum,         \* the std::size_t it returned, 0 otherwise
          visits           \* Traverse: how often the visitor ran on each index

vars == <<m_data, m_parent_index, status, lastOp, lastArg, lastVals, lastRet, lastNum, visits>>

(* ------------------------------ bounds -------------------------------- *)

\* largest number of nodes a tree is grown to under Spec and SpecTraverse
MaxLen == 4

\* largest number of nodes a tree is grown to under SpecDeep
DeepLen == 6

\* largest number of values handed to one insert of a collection
MaxMany == 2

\* Number of nested calls of getAllDescendants that are followed call by
\* call.  A call nested deeper than that is settled in closed form (Walk,
\* Descent), with the same outcomes: the recursion returns, meets a dangling
\* iterator, or revisits the same index for ever and exhausts the stack.
StackDepth == 4

\* longest collection handed to a constructor under SpecCtor
CtorLen == 3
\* longest collection of a tree assigned from under SpecCtor
AssignLen == 2
\* the largest part of a range that a parallel count hands to one thread
ParGrain == 500
\* the longest text a visitor of Traverse is let to build
MaxText == 2

\* a value-initialised T (resize)
DefaultT == 0

\* above this number of tree nodes, certain operations shall be parallelized
size_for_parallelization == 2000

(* ------------------------------ helpers ------------------------------- *)

At(s, i) == s[i + 1]
Range(s) == {s[k] : k \in DOMAIN s}
Front(s) == SubSeq(s, 1, Len(s) - 1)
Back(s) == s[Len(s)]
NoVisits == [i \in {} |-> 0]

(* --------------------------- internal methods ------------------------- *)

\* FlatTree::isValid; reads m_parent_index[0], so p must not be empty
isValid(d, p) == (Len(d) = Len(p)) /\ (At(p, 0) = 0)

\* FlatTree::getDescendants: first generation descendants, appended to out
getDescendants(d, p, xi_parent_index, xo_descendants) ==
    IF ~isValid(d, p) THEN [ret |-> FALSE, out |-> xo_descendants]
    ELSE IF xi_parent_index = 0 THEN [ret |-> FALSE, out |-> xo_descendants]
    ELSE LET kids == SelectSeq([k \in 1..(Len(d) - 1) |-> k],
                               LAMBDA i : At(p, i) = xi_parent_index)
         IN  [ret |-> kids # <<>>, out |-> xo_descendants \o kids]

\* FlatTree::getAllDescendantsFromRoot
getAllDescendantsFromRoot(d, xo_descendants) ==
    [ret      |-> Len(d) > 1,
     out      |-> xo_descendants \o [k \in 1..(Len(d) - 1) |-> k],
     overflow |-> FALSE]

\* the capacity of a std::vector that holds len elements in a buffer for cap
\* after n calls of push_back: a full vector moves to a buffer twice as large
RECURSIVE Grown(_, _, _)
Grown(cap, len, n) ==
    IF n = 0 THEN cap
    ELSE Grown(IF len < cap THEN cap ELSE IF len = 0 THEN 1 ELSE 2 * len, len + 1, n - 1)

\* s written q times in a row
Repeated(s, q) == [i \in 1..(q * Len(s)) |-> s[((i - 1) % Len(s)) + 1]]

\* an outcome of a call that collects descendants: the collection and its
\* capacity, and how the call ended.  overflow: the recursion never returns
\* and exhausts the stack (no collection is handed back).  fault, dangling:
\* a range-for has read through an iterator into a buffer the collection has
\* left, which is undefined; the
\* process faults at the read (fault), or reads on (dangling) and then
\* faults later, never returns, or returns with a collection that begins
\* with out and goes on with further node indices; out and cap are the
\* collection at that read.
Outcome(ret, out, cap, how) ==
    [ret      |-> ret,
     out      |-> out,
     cap      |-> cap,
     overflow |-> how = "overflow",
     fault    |-> how = "fault",
     dangling |-> how = "dangling"]

\* the call has come to an end that no caller's loop goes on from
Ended(r) == r.overflow \/ r.fault \/ r.dangling

\* the outcomes of a read through a dangling iterator
DanglingRead(ret, out, cap) ==
    {Outcome(ret, out, cap, "fault"), Outcome(ret, out, cap, "dangling")}

\* The descent that begins when a range-for of getAllDescendantsNotFromRoot
\* comes, with valid iterators, to a non-root index that has first generation
\* descendants K, having passed z times the index 0 and otherwise only indices
\* without descendants.  The call on that index appends K and walks the
\* collection from its begin: each 0 appends R (getAllDescendantsFromRoot),
\* and at the same index the next call does the same, one level deeper.  The
\* descent only ends when a push_back of R moves the collection while a loop
\* is under way: the next read of that loop is through a dangling iterator.
\* Levels that move nothing are taken together.  free is the room left when a
\* level begins; seen are its values at the levels where K moved the
\* collection to a buffer twice as large, which fixes the room at the next
\* such level: a value met again means that R never moves the collection,
\* and the descent is endless.
RECURSIVE Descent(_, _, _, _, _, _)
Descent(out, cap, K, R, z, seen) ==
    LET len    == Len(out)
        free   == cap - len
        level  == K \o Repeated(R, z)
        moved  == {c \in 1..z : Grown(cap, len, Len(K) + c * Len(R))
                                  # Grown(cap, len, Len(K) + (c - 1) * Len(R))}
        first  == CHOOSE c \in moved : \A c2 \in moved : c <= c2
        steady == (Grown(cap, len, Len(K)) # cap) /\ (cap >= Len(level))
        levels == IF free >= Len(level) THEN free \div Len(level) ELSE 1
    IN  IF z = 0 THEN {Outcome(FALSE, <<>>, 0, "overflow")}
        ELSE IF moved # {}
        THEN DanglingRead(FALSE, out \o K \o Repeated(R, first),
                          Grown(cap, len, Len(K) + first * Len(R)))
        ELSE IF steady /\ (free \in seen) THEN {Outcome(FALSE, <<>>, 0, "overflow")}
        ELSE Descent(out \o Repeated(level, levels),
                     Grown(cap, len, levels * Len(level)),
                     K, R, z, IF steady THEN seen \cup {free} ELSE seen)

\* the range-for of getAllDescendantsNotFromRoot from position j on, its
\* nested calls not followed one by one: cap0 is the capacity the collection
\* had when the loop took begin and end, n its length then, z the number of
\* turns on the index 0 so far.  A call on an index without descendants
\* returns at once; the call on 0 appends the non-root indices; the call on
\* another index with descendants is the begin of a Descent.
RECURSIVE Walk(_, _, _, _, _, _, _, _)
Walk(d, p, out, cap, cap0, j, n, z) ==
    IF j > n THEN {Outcome(TRUE, out, cap, "returned")}
    ELSE IF cap # cap0 THEN DanglingRead(TRUE, out, cap)
    ELSE IF out[j] = 0
    THEN LET g == getAllDescendantsFromRoot(d, out)
         IN  Walk(d, p, g.out, Grown(cap, Len(out), Len(g.out) - Len(out)),
                  cap0, j + 1, n, z + 1)
    ELSE LET g == getDescendants(d, p, out[j], <<>>)
         IN  IF ~g.ret THEN Walk(d, p, out, cap, cap0, j + 1, n, z)
             ELSE {[r EXCEPT !.ret = TRUE]
                   : r \in Descent(out, cap, g.out,
                                   getAllDescendantsFromRoot(d, <<>>).out, z, {})}

RECURSIVE getAllDescendants(_, _, _, _, _, _)
RECURSIVE getAllDescendantsNotFromRoot(_, _, _, _, _, _)
RECURSIVE OtherGenerations(_, _, _, _, _, _, _)
RECURSIVE NextGeneration(_, _, _, _, _, _)

\* one turn of the range-for of getAllDescendantsNotFromRoot, at position j,
\* on the run r of the loop so far; cap is the capacity the collection had
\* when the loop took begin and end.  While the collection is in that buffer
\* the turn reads position j and calls getAllDescendants on what it reads.
\* Once a push_back of a call below has moved the collection to a larger
\* buffer (r.cap # cap) the iterators of the loop dangle, and the turn is a
\* read through one of them.  The result is the set of possible runs.
NextGeneration(d, p, r, cap, j, depth) ==
    IF Ended(r) THEN {r}
    ELSE IF r.cap # cap THEN DanglingRead(r.ret, r.out, r.cap)
    ELSE {[c EXCEPT !.ret = r.ret]
          : c \in getAllDescendants(d, p, r.out[j], r.out, r.cap, depth - 1)}

\* the range-for of getAllDescendantsNotFromRoot over the collection it
\* appends to: begin and end are taken once, so it takes the turns j..n
\* (a run that has come to its end takes no further turn)
OtherGenerations(d, p, runs, cap, j, n, depth) ==
    IF (j > n) \/ (\A r \in runs : Ended(r)) THEN runs
    ELSE OtherGenerations(d, p, UNION {NextGeneration(d, p, r, cap, j, depth) : r \in runs},
                          cap, j + 1, n, depth)

\* getAllDescendantsNotFromRoot without the early return for a node that has no
\* first generation descendants
getAllDescendantsNotFromRoot_noEarlyReturn(d, p, xi_parent_index, xo_descendants, cap, depth) ==
    LET g == getDescendants(d, p, xi_parent_index, xo_descendants)
        grown == Grown(cap, Len(xo_descendants), Len(g.out) - Len(xo_descendants))
    IN  IF depth <= 0
        THEN Walk(d, p, g.out, grown, grown, 1, Len(g.out), 0)
        ELSE OtherGenerations(d, p, {Outcome(TRUE, g.out, grown, "returned")},
                              grown, 1, Len(g.out), depth)

\* FlatTree::getAllDescendantsNotFromRoot on a collection that holds
\* xo_descendants in a buffer for cap elements; the set of possible outcomes.
\* Nested calls are followed one by one to the depth given, and by Walk from
\* there on, which makes no difference to the outcomes.
getAllDescendantsNotFromRoot(d, p, xi_parent_index, xo_descendants, cap, depth) ==
    LET g == getDescendants(d, p, xi_parent_index, xo_descendants)
        grown == Grown(cap, Len(xo_descendants), Len(g.out) - Len(xo_descendants))
    IN  IF ~g.ret THEN {Outcome(FALSE, g.out, grown, "returned")}
        ELSE IF depth <= 0
        THEN Walk(d, p, g.out, grown, grown, 1, Len(g.out), 0)
        ELSE OtherGenerations(d, p, {Outcome(TRUE, g.out, grown, "returned")},
                              grown, 1, Len(g.out), depth)

\* FlatTree::getAllDescendants; the set of possible outcomes
getAllDescendants(d, p, xi_parent_index, xo_descendants, cap, depth) ==
    IF xi_parent_index # 0
    THEN getAllDescendantsNotFromRoot(d, p, xi_parent_index, xo_descendants, cap, depth)
    ELSE LET g == getAllDescendantsFromRoot(d, xo_descendants)
         IN  {Outcome(g.ret, g.out,
                      Grown(cap, Len(xo_descendants), Len(g.out) - Len(xo_descendants)),
                      "returned")}

\* the assert(isValid()) that closes remove_node; on a tree left without nodes
\* isValid reads m_parent_index[0] past the end
Checked(t) ==
    IF Len(t.d) # Len(t.p) THEN {[t EXCEPT !.status = "aborted"]}
    ELSE IF Len(t.p) = 0
    THEN {t, [t EXCEPT !.status = "aborted"], [t EXCEPT !.status = "crashed"]}
    ELSE IF isValid(t.d, t.p) THEN {t}
    ELSE {[t EXCEPT !.status = "aborted"]}

\* remove_node, the node value (m_data[xi_index] = m_data[m_data.size() - 1];
\* m_data.pop_back()): the possible <<m_data, m_parent_index, halves, upper>>
\* afterwards, halves being the lower and the upper 4 bytes of the last parent
\* index.  An index that is not below the size is a write past the last
\* element: in the spare capacity of the buffer it changes no live element;
\* past the capacity it lands elsewhere, possibly on m_parent_index.  A node
\* value is an int of 4 bytes and a parent index a std::size_t of 8, its upper
\* half 0: the write covers the lower half of a parent index, which then is
\* the node value, or its upper half.  A parent index with an upper half
\* other than 0 is 2^32 or more, beyond the integers of the model: m_parent_index
\* keeps its lower half, and upper is <<index, upper half>> where that has
\* happened to a parent index other than the last, << >> otherwise.
MovedData(t, xi_index) ==
    IF xi_index < Len(t.d)
    THEN {<<Front([t.d EXCEPT ![xi_index + 1] = Back(t.d)]), t.p, <<Back(t.p), 0>>, <<>> >>}
    ELSE {<<Front(t.d), t.p, <<Back(t.p), 0>>, <<>> >>}
         \cup (IF xi_index < t.capd THEN {}
               ELSE {<<Front(t.d), [t.p EXCEPT ![k] = Back(t.d)],
                       <<IF k = Len(t.p) THEN Back(t.d) ELSE Back(t.p), 0>>, <<>> >>
                     : k \in DOMAIN t.p}
                    \cup {<<Front(t.d), t.p,
                            <<Back(t.p), IF k = Len(t.p) THEN Back(t.d) ELSE 0>>,
                            IF (k = Len(t.p)) \/ (Back(t.d) = 0) THEN <<>>
                            ELSE <<k - 1, Back(t.d)>> >>
                          : k \in DOMAIN t.p})

\* remove_node, the parent index (m_parent_index[xi_index] =
\* m_parent_index[m_parent_index.size() - 1]; m_parent_index.pop_back()) on
\* the outcome dp of MovedData.  Past the capacity the 8 bytes of the index
\* cover two node values next to each other, which then are its lower and its
\* upper half, or one node value at either end of m_data.
MovedParent(t, dp, xi_index) ==
    IF xi_index < Len(dp[2])
    THEN {<<dp[1], Front([dp[2] EXCEPT ![xi_index + 1] = Back(dp[2])])>>}
    ELSE {<<dp[1], Front(dp[2])>>}
         \cup (IF xi_index < t.capp THEN {}
               ELSE {<<[j \in DOMAIN dp[1] |->
                          IF j = k THEN dp[3][1]
                          ELSE IF j = k + 1 THEN dp[3][2]
                          ELSE dp[1][j]], Front(dp[2])>> : k \in 0..Len(dp[1])})

\* the end of a remove_node that has left the parent index upper[1] with the
\* upper half upper[2]: the closing assert fails if the vectors differ in
\* length or the index is that of the root; otherwise the call returns with
\* a tree that the integers of the model cannot hold ("beyond": p gives the
\* lower halves, the parent index upper[1] is p[upper[1]] + upper[2] * 2^32,
\* and the tree is not followed further)
Beyond(t, upper) ==
    IF (Len(t.d) # Len(t.p)) \/ (upper[1] = 0)
    THEN [t EXCEPT !.status = "aborted"]
    ELSE [d |-> t.d, p |-> t.p, capd |-> t.capd, capp |-> t.capp, oob |-> t.oob,
          status |-> "beyond", upper |-> upper]

\* the ends of remove_node that are open to a call which wrote past the last
\* element, besides a return: the process faults
Faulted(t, inside) ==
    IF inside THEN {} ELSE {[t EXCEPT !.oob = TRUE, !.status = "crashed"]}

\* a removal that moves the last value into the slot but not its parent index
remove_node_keepsParent(t, xi_index) ==
    IF xi_index = 0 THEN {t}
    ELSE IF (t.status = "wrapped") \/ ((Len(t.d) = 0) /\ (Len(t.p) = 0))
    THEN {[t EXCEPT !.oob = TRUE, !.status = how] : how \in {"wrapped", "aborted", "crashed"}}
    ELSE IF (Len(t.d) = 0) \/ (Len(t.p) = 0)
    THEN {[t EXCEPT !.oob = TRUE, !.status = how] : how \in {"aborted", "crashed"}}
    ELSE LET inside == (xi_index < Len(t.d)) /\ (xi_index < Len(t.p))
         IN  UNION {Checked([t EXCEPT !.d = dp[1], !.p = Front(dp[2]),
                                      !.oob = t.oob \/ ~inside])
                    : dp \in MovedData(t, xi_index)}
             \cup Faulted(t, inside)

\* FlatTree::remove_node on the tree t = [d, p, capd, capp, oob, status] (the
\* vectors, their capacities, whether an index was used that was not below the
\* size, and how the last call ended); the set of possible outcomes.  The call
\* returns ("ok"), dies, or, on a tree without nodes, returns with size()
\* wrapped around ("wrapped": no sequence describes the vectors any more), or,
\* with an index past the capacity, returns with a parent index of 2^32 or
\* more ("beyond", see Beyond).
remove_node(t, xi_index) ==
    IF xi_index = 0 THEN {t}
    ELSE IF (t.status = "wrapped") \/ ((Len(t.d) = 0) /\ (Len(t.p) = 0))
    THEN {[t EXCEPT !.oob = TRUE, !.status = how] : how \in {"wrapped", "aborted", "crashed"}}
    ELSE IF (Len(t.d) = 0) \/ (Len(t.p) = 0)
    THEN {[t EXCEPT !.oob = TRUE, !.status = how] : how \in {"aborted", "crashed"}}
    ELSE LET inside == (xi_index < Len(t.d)) /\ (xi_index < Len(t.p))
             After(dp, dpp) == [t EXCEPT !.d = dpp[1], !.p = dpp[2],
                                         !.oob = t.oob \/ ~inside]
         IN  UNION {UNION {IF dp[4] = <<>> THEN Checked(After(dp, dpp))
                           ELSE {Beyond(After(dp, dpp), dp[4])}
                           : dpp \in MovedParent(t, dp, xi_index)}
                    : dp \in MovedData(t, xi_index)}
             \cup Faulted(t, inside)

\* the loop of FlatTree::remove over the collected descendants; it ends with
\* the first call that does not return
RECURSIVE RemoveDescendants(_, _, _)
RemoveDescendants(t, descendants, j) ==
    IF j > Len(descendants) THEN {t}
    ELSE UNION {IF r.status \in {"ok", "wrapped"}
                THEN RemoveDescendants(r, descendants, j + 1)
                ELSE {r}
                : r \in remove_node(t, descendants[j])}

\* FlatTree::remove as a function of the tree: the set of possible outcomes
\* [d, p, ret, status].  The collection of descendants has room for size()
\* indices (reserve); the vectors of the tree have room for their elements
\* at least, and no index handed to remove_node reaches their size.
removed(d, p, xi_parent_id) ==
    IF (xi_parent_id >= Len(p)) \/ ~isValid(d, p)
    THEN {[d |-> d, p |-> p, ret |-> "false", status |-> "ok"]}
    ELSE UNION {
           IF Ended(g)
           THEN {[d |-> d, p |-> p, ret |-> "none", status |-> "crashed"]}
           ELSE IF ~g.ret
           THEN {[d |-> d, p |-> p, ret |-> "false", status |-> "ok"]}
           ELSE {IF t.status = "ok"
                 THEN [d |-> t.d, p |-> t.p, ret |-> "true", status |-> "ok"]
                 ELSE [d |-> d, p |-> p, ret |-> "none", status |-> t.status]
                 : t \in RemoveDescendants([d |-> d, p |-> p, capd |-> Len(d), capp |-> Len(p),
                                            oob |-> FALSE, status |-> "ok"], g.out, 1)}
           : g \in getAllDescendants(d, p, xi_parent_id, <<>>, Len(d), StackDepth)}

\* the loop of operator>> over a collection of indices: every index is handed
\* to remove, whatever the calls before returned; succeed is their conjunction
RECURSIVE RemoveEach(_, _, _)
RemoveEach(run, xi_nodes, j) ==
    IF j > Len(xi_nodes) THEN {run}
    ELSE UNION {IF r.status = "ok"
                THEN RemoveEach([d |-> r.d, p |-> r.p,
                                 succeed |-> run.succeed /\ (r.ret = "true"),
                                 status |-> "ok"], xi_nodes, j + 1)
                ELSE {[run EXCEPT !.status = r.status]}
                : r \in removed(run.d, run.p, xi_nodes[j])}

(* ------------------------------ operations ---------------------------- *)

Returned(op, arg, vals, ret, num) ==
    /\ lastOp' = op
    /\ lastArg' = arg
    /\ lastVals' = vals
    /\ lastRet' = ret
    /\ lastNum' = num
    /\ status' = "ok"

\* the call never returns: the process is gone, by a fault or by a failed assert
Died(how, op, arg, vals) ==
    /\ lastOp' = op
    /\ lastArg' = arg
    /\ lastVals' = vals
    /\ lastRet' = "none"
    /\ lastNum' = 0
    /\ status' = how
    /\ UNCHANGED <<m_data, m_parent_index>>

\* insert that records the root as the parent of every new node
insert_underRoot(cap, xi_parent_id, xi_node) ==
    /\ status = "ok"
    /\ visits' = NoVisits
    /\ IF (xi_parent_id >= Len(m_parent_index)) \/ ~isValid(m_data, m_parent_index)
       THEN /\ UNCHANGED <<m_data, m_parent_index>>
            /\ Returned("insert", xi_parent_id, <<xi_node>>, "false", 0)
       ELSE /\ Len(m_data) < cap
            /\ m_data' = Append(m_data, xi_node)
            /\ m_parent_index' = Append(m_parent_index, 0)
            /\ Returned("insert", xi_parent_id, <<xi_node>>, "true", 0)

\* FlatTree::insert(xi_parent_id, T&&)
insert(cap, xi_parent_id, xi_node) ==
    /\ status = "ok"
    /\ visits' = NoVisits
    /\ IF (xi_parent_id >= Len(m_parent_index)) \/ ~isValid(m_data, m_parent_index)
       THEN /\ UNCHANGED <<m_data, m_parent_index>>
            /\ Returned("insert", xi_parent_id, <<xi_node>>, "false", 0)
       ELSE /\ Len(m_data) < cap
            /\ m_data' = Append(m_data, xi_node)
            /\ m_parent_index' = Append(m_parent_index, xi_parent_id)
            /\ Returned("insert", xi_parent_id, <<xi_node>>, "true", 0)

\* FlatTree::insert(xi_parent_id, C&&): a collection of nodes
insert_many(cap, xi_parent_id, xi_nodes) ==
    /\ status = "ok"
    /\ visits' = NoVisits
    /\ IF (xi_parent_id >= Len(m_parent_index)) \/ ~isValid(m_data, m_parent_index)
       THEN /\ UNCHANGED <<m_data, m_parent_index>>
            /\ Returned("insert_many", xi_parent_id, xi_nodes, "false", 0)
       ELSE /\ Len(m_data) + Len(xi_nodes) <= cap
            /\ m_data' = m_data \o xi_nodes
            /\ m_parent_index' = m_parent_index \o [k \in 1..Len(xi_nodes) |-> xi_parent_id]
            /\ Returned("insert_many", xi_parent_id, xi_nodes, "true", 0)

\* operator<<(tree, {parent index, node value}): insert, and an assert that it
\* succeeded
ShiftIn(cap, xi_parent_id, xi_node) ==
    /\ status = "ok"
    /\ visits' = NoVisits
    /\ IF (xi_parent_id >= Len(m_parent_index)) \/ ~isValid(m_data, m_parent_index)
       THEN Died("aborted", "operator<<", xi_parent_id, <<xi_node>>)
       ELSE /\ Len(m_data) < cap
            /\ m_data' = Append(m_data, xi_node)
            /\ m_parent_index' = Append(m_parent_index, xi_parent_id)
            /\ Returned("operator<<", xi_parent_id, <<xi_node>>, "none", 0)

\* operator<<(tree, {parent index, {node values}}): insert of a collection,
\* and an assert that it succeeded
ShiftInMany(cap, xi_parent_id, xi_nodes) ==
    /\ status = "ok"
    /\ visits' = NoVisits
    /\ IF (xi_parent_id >= Len(m_parent_index)) \/ ~isValid(m_data, m_parent_index)
       THEN Died("aborted", "operator<<many", xi_parent_id, xi_nodes)
       ELSE /\ Len(m_data) + Len(xi_nodes) <= cap
            /\ m_data' = m_data \o xi_nodes
            /\ m_parent_index' = m_parent_index \o [k \in 1..Len(xi_nodes) |-> xi_parent_id]
            /\ Returned("operator<<many", xi_parent_id, xi_nodes, "none", 0)

\* a call of FlatTree::remove; an index past the end handed to remove_node is
\* undefined behaviour: the call completes on the live elements, or the
\* process faults
remove(xi_parent_id) ==
    /\ status = "ok"
    /\ visits' = NoVisits
    /\ \E r \in removed(m_data, m_parent_index, xi_parent_id) :
          IF r.status = "ok"
          THEN /\ m_data' = r.d
               /\ m_parent_index' = r.p
               /\ Returned("remove", xi_parent_id, <<>>, r.ret, 0)
          ELSE Died(r.status, "remove", xi_parent_id, <<>>)

\* operator>>(tree, index): remove, and an assert that it succeeded
ShiftOut(xi_node) ==
    /\ status = "ok"
    /\ visits' = NoVisits
    /\ \E r \in removed(m_data, m_parent_index, xi_node) :
          IF r.status # "ok" THEN Died(r.status, "operator>>", xi_node, <<>>)
          ELSE IF r.ret # "true" THEN Died("aborted", "operator>>", xi_node, <<>>)
          ELSE /\ m_data' = r.d
               /\ m_parent_index' = r.p
               /\ Returned("operator>>", xi_node, <<>>, "none", 0)

\* operator>>(tree, {indices}): remove of every index, and an assert that all
\* of them succeeded
ShiftOutMany(xi_nodes) ==
    /\ status = "ok"
    /\ visits' = NoVisits
    /\ \E run \in RemoveEach([d |-> m_data, p |-> m_parent_index,
                              succeed |-> TRUE, status |-> "ok"], xi_nodes, 1) :
          IF run.status # "ok" THEN Died(run.status, "operator>>many", Len(xi_nodes), xi_nodes)
          ELSE IF ~run.succeed THEN Died("aborted", "operator>>many", Len(xi_nodes), xi_nodes)
          ELSE /\ m_data' = run.d
               /\ m_parent_index' = run.p
               /\ Returned("operator>>many", Len(xi_nodes), xi_nodes, "none", 0)

\* FlatTree::clear; on a tree without nodes m_data[0] is read past the end
clear(cap) ==
    /\ status = "ok"
    /\ visits' = NoVisits
    /\ IF Len(m_data) > 0
       THEN /\ m_data' = <<At(m_data, 0)>>
            /\ m_parent_index' = <<0>>
            /\ Returned("clear", 0, <<>>, "none", 0)
       ELSE \/ \E root \in 0..cap :
                 /\ m_data' = <<root>>
                 /\ m_parent_index' = <<0>>
                 /\ Returned("clear", 0, <<>>, "none", 0)
            \/ Died("crashed", "clear", 0, <<>>)

\* FlatTree::resize
resize(xi_count) ==
    /\ status = "ok"
    /\ visits' = NoVisits
    /\ m_data' = [k \in 1..xi_count |->
                    IF k <= Len(m_data) THEN m_data[k] ELSE DefaultT]
    /\ m_parent_index' = [k \in 1..xi_count |->
                    IF k <= Len(m_parent_index) THEN m_parent_index[k] ELSE 0]
    /\ Returned("resize", xi_count, <<>>, "none", 0)

\* The visitors of traverseTreeTest append text to the node they are handed
\* by reference.  A text is held as a number to base Radix whose digits are
\* its characters; no character is the digit 0, so a text that was appended
\* to differs from what it was, and texts differ when their characters do.
Radix == 16

\* the character '_'
Underscore == 15

\* node += c for one character c
Appended(node, c) == (node * Radix) + c

\* node += std::to_string(i): the decimal digits of i, the leading one first
\* (the character of the decimal digit k is k + 1)
RECURSIVE AppendedNumber(_, _)
AppendedNumber(node, i) ==
    IF i < 10 THEN Appended(node, i + 1)
    ELSE Appended(AppendedNumber(node, i \div 10), (i % 10) + 1)

\* the number of characters of a text
RECURSIVE TextLen(_)
TextLen(node) == IF node = 0 THEN 0 ELSE 1 + TextLen(node \div Radix)

\* what a visitor leaves in the node it is handed by reference
\* (f(m_data[elm])) at its call number i (the visitors count their calls:
\* [i = 0] ... ++i): "underscore" is node += "_", "number" is
\* node += std::to_string(i), "read" only looks at the node
Visited(xi_func, node, i) ==
    IF xi_func = "underscore" THEN Appended(node, Underscore)
    ELSE IF xi_func = "number" THEN AppendedNumber(node, i)
    ELSE node

\* std::for_each over descendants from position j on, i calls of the visitor
\* after the part that j is in began.  The visitor is handed on by value, so
\* every part of the range starts with a copy that has counted no call yet:
\* starts holds the positions at which a further part begins.
RECURSIVE ForEach(_, _, _, _, _, _)
ForEach(d, descendants, j, i, xi_func, starts) ==
    IF j > Len(descendants) THEN d
    ELSE LET n == IF j \in starts THEN 0 ELSE i
         IN  ForEach([d EXCEPT ![descendants[j] + 1] = Visited(xi_func, @, n)],
                     descendants, j + 1, n + 1, xi_func, starts)

\* the parts std::for_each may cut a range of n elements into: one under
\* std::execution::seq, any number of consecutive parts under par
Parts(xi_exec, n) == IF xi_exec = "par" THEN SUBSET (2..n) ELSE {{}}

\* FlatTree::Traverse; visits counts the calls of the visitor per node (xi_exec
\* is "seq" or "par": std::for_each calls the visitor once per collected index
\* under either policy).  On a tree without nodes a non-root start makes
\* isValid read m_parent_index[0] past the end.  A visitor is let to build
\* texts of at most MaxText characters.
Traverse(xi_parent_index, xi_exec, xi_func) ==
    /\ status = "ok"
    /\ IF (Len(m_parent_index) = 0) /\ (xi_parent_index # 0)
       THEN \/ /\ visits' = NoVisits
               /\ UNCHANGED <<m_data, m_parent_index>>
               /\ Returned("Traverse", xi_parent_index, <<xi_exec, xi_func>>, "none", 0)
            \/ /\ visits' = NoVisits
               /\ Died("crashed", "Traverse", xi_parent_index, <<xi_exec, xi_func>>)
       ELSE \E g \in getAllDescendants(m_data, m_parent_index, xi_parent_index, <<>>,
                                       Len(m_data), StackDepth) :
              IF Ended(g)
              THEN /\ visits' = NoVisits
                   /\ Died("crashed", "Traverse", xi_parent_index, <<xi_exec, xi_func>>)
              ELSE /\ visits' = IF g.ret
                                THEN [i \in 0..(Len(m_data) - 1) |->
                                        Cardinality({j \in DOMAIN g.out : g.out[j] = i})]
                                ELSE NoVisits
                   /\ IF g.ret
                      THEN \E starts \in Parts(xi_exec, Len(g.out)) :
                              /\ m_data' = ForEach(m_data, g.out, 1, 0, xi_func, starts)
                              /\ \A k \in DOMAIN m_data' : TextLen(m_data'[k]) <= MaxText
                      ELSE m_data' = m_data
                   /\ UNCHANGED m_parent_index
                   /\ Returned("Traverse", xi_parent_index, <<xi_exec, xi_func>>, "none", 0)

(* ------------------------------- queries ------------------------------ *)

\* a count that starts at the first non-root slot
getNumOfDescendantsSequential_skipsRoot(p, xi_parent_index) ==
    Cardinality({k \in DOMAIN p : (k # 1) /\ (p[k] = xi_parent_index)})

\* FlatTree::getNumOfDescendantsSequential: std::count over m_parent_index
getNumOfDescendantsSequential(p, xi_parent_index) ==
    Cardinality({k \in DOMAIN p : p[k] = xi_parent_index})

\* std::count under an execution policy is a reduction: the range
\* [first, last) is halved until a part has at most ParGrain elements, each
\* part is counted on its own and the counts of the parts are added
RECURSIVE CountParts(_, _, _, _)
CountParts(p, value, first, last) ==
    IF last - first <= ParGrain
    THEN Cardinality({k \in first..(last - 1) : p[k] = value})
    ELSE LET middle == first + ((last - first) \div 2)
         IN  CountParts(p, value, first, middle) + CountParts(p, value, middle, last)

\* a reduction that loses every part but the first
getNumOfDescendantsParallel_firstPartOnly(p, xi_parent_index) ==
    CountParts(p, xi_parent_index, 1, (IF Len(p) < ParGrain THEN Len(p) ELSE ParGrain) + 1)

\* FlatTree::getNumOfDescendantsParallel: std::count under par_unseq
getNumOfDescendantsParallel(p, xi_parent_index) ==
    CountParts(p, xi_parent_index, 1, Len(p) + 1)

\* FlatTree::getNumOfDescendants
getNumOfDescendants(d, p, xi_parent_index) ==
    IF Len(d) < size_for_parallelization
    THEN getNumOfDescendantsSequential(p, xi_parent_index)
    ELSE getNumOfDescendantsParallel(p, xi_parent_index)

\* a call of getNumOfDescendants
NumOfDescendants(xi_parent_index) ==
    /\ status = "ok"
    /\ visits' = NoVisits
    /\ UNCHANGED <<m_data, m_parent_index>>
    /\ Returned("getNumOfDescendants", xi_parent_index, <<>>, "none",
                getNumOfDescendants(m_data, m_parent_index, xi_parent_index))

\* FlatTree::isLeaf
isLeaf(xi_index) ==
    /\ status = "ok"
    /\ visits' = NoVisits
    /\ IF xi_index < Len(m_parent_index)
       THEN /\ UNCHANGED <<m_data, m_parent_index>>
            /\ Returned("isLeaf", xi_index, <<>>,
                        IF getNumOfDescendants(m_data, m_parent_index, xi_index) = 0
                        THEN "true" ELSE "false", 0)
       ELSE Died("aborted", "isLeaf", xi_index, <<>>)

\* FlatTree::getParentIndex; on a tree without nodes the assert reads
\* m_parent_index[0] past the end before the index check fails
getParentIndex(xi_index) ==
    /\ status = "ok"
    /\ visits' = NoVisits
    /\ IF Len(m_parent_index) = 0
       THEN \/ Died("aborted", "getParentIndex", xi_index, <<>>)
            \/ Died("crashed", "getParentIndex", xi_index, <<>>)
       ELSE IF ~isValid(m_data, m_parent_index) \/ ~(xi_index < Len(m_parent_index))
       THEN Died("aborted", "getParentIndex", xi_index, <<>>)
       ELSE /\ UNCHANGED <<m_data, m_parent_index>>
            /\ Returned("getParentIndex", xi_index, <<>>, "none",
                        IF xi_index > 0 THEN At(m_parent_index, xi_index) ELSE 0)

\* FlatTree::operator[] read: the value of the node at xi_index; on a tree
\* without nodes the assert reads m_parent_index[0] past the end
Subscript(xi_index) ==
    /\ status = "ok"
    /\ visits' = NoVisits
    /\ IF Len(m_parent_index) = 0
       THEN \/ Died("aborted", "operator[]", xi_index, <<>>)
            \/ Died("crashed", "operator[]", xi_index, <<>>)
       ELSE IF ~(isValid(m_data, m_parent_index) /\ (xi_index < Len(m_data)))
       THEN Died("aborted", "operator[]", xi_index, <<>>)
       ELSE /\ UNCHANGED <<m_data, m_parent_index>>
            /\ Returned("operator[]", xi_index, <<At(m_data, xi_index)>>, "none", 0)

\* FlatTree::operator[] written through: a[xi_index] = xi_value
SubscriptAssign(xi_index, xi_value) ==
    /\ status = "ok"
    /\ visits' = NoVisits
    /\ IF Len(m_parent_index) = 0
       THEN \/ Died("aborted", "operator[]=", xi_index, <<xi_value>>)
            \/ Died("crashed", "operator[]=", xi_index, <<xi_value>>)
       ELSE IF ~(isValid(m_data, m_parent_index) /\ (xi_index < Len(m_data)))
       THEN Died("aborted", "operator[]=", xi_index, <<xi_value>>)
       ELSE /\ m_data' = [m_data EXCEPT ![xi_index + 1] = xi_value]
            /\ UNCHANGED m_parent_index
            /\ Returned("operator[]=", xi_index, <<xi_value>>, "none", 0)

\* a call of FlatTree::getAllDescendants with an empty collection that has no
\* buffer yet (src/main.cpp, modifyTreeTest); lastVals takes the indices it
\* holds at the return.  On a tree without nodes a non-root index makes
\* isValid read m_parent_index[0] past the end.
AllDescendants(xi_parent_index) ==
    /\ status = "ok"
    /\ visits' = NoVisits
    /\ IF (Len(m_parent_index) = 0) /\ (xi_parent_index # 0)
       THEN \/ /\ UNCHANGED <<m_data, m_parent_index>>
               /\ Returned("getAllDescendants", xi_parent_index, <<>>, "false", 0)
            \/ Died("crashed", "getAllDescendants", xi_parent_index, <<>>)
       ELSE \E g \in getAllDescendants(m_data, m_parent_index, xi_parent_index, <<>>,
                                       0, StackDepth) :
              IF Ended(g)
              THEN Died("crashed", "getAllDescendants", xi_parent_index, <<>>)
              ELSE /\ UNCHANGED <<m_data, m_parent_index>>
                   /\ Returned("getAllDescendants", xi_parent_index, g.out,
                               IF g.ret THEN "true" ELSE "false", 0)

\* FlatTree::doesIndexExistSequential: std::find of the index in m_parent_index
doesIndexExistSequential(p, xi_index) == \E k \in DOMAIN p : p[k] = xi_index

\* FlatTree::doesIndexExistParallel: the same search under std::execution::par
doesIndexExistParallel(p, xi_index) == xi_index \in Range(p)

\* FlatTree::doesIndexExist
doesIndexExist(xi_index) ==
    /\ status = "ok"
    /\ visits' = NoVisits
    /\ UNCHANGED <<m_data, m_parent_index>>
    /\ Returned("doesIndexExist", xi_index, <<>>,
                IF (IF Len(m_data) < size_for_parallelization
                    THEN doesIndexExistSequential(m_parent_index, xi_index)
                    ELSE doesIndexExistParallel(m_parent_index, xi_index))
                THEN "true" ELSE "false", 0)

(* ----------------------------- construction --------------------------- *)

\* what a constructor call leaves: a tree, or a process that is gone
Built(d, p) == [d |-> d, p |-> p, status |-> "ok"]
NotBuilt(how) == [d |-> <<>>, p |-> <<>>, status |-> how]

\* FlatTree(const C1&, const C2&) / FlatTree(C1&&, C2&&).  With two empty
\* collections the last assert reads m_parent_index[0] of an empty vector.
FlatTree_collections(xi_data, xi_parent_index) ==
    IF Len(xi_data) # Len(xi_parent_index) THEN {NotBuilt("aborted")}
    ELSE IF Len(xi_parent_index) = 0
    THEN {NotBuilt("crashed"), NotBuilt("aborted"), Built(xi_data, xi_parent_index)}
    ELSE IF At(xi_parent_index, 0) # 0 THEN {NotBuilt("aborted")}
    ELSE {Built(xi_data, xi_parent_index)}

\* FlatTree(const std::vector<T>&, const std::vector<std::size_t>&) and its
\* rvalue twin
FlatTree_vectors(xi_data, xi_parent_index) ==
    IF Len(xi_data) # Len(xi_parent_index) THEN {NotBuilt("aborted")}
    ELSE {Built(xi_data, xi_parent_index)}

\* FlatTree::operator= (copy and move assignment, both defaulted): the tree
\* takes m_data and m_parent_index of another tree, which a constructor built
\* from the two collections
Assign(xi_data, xi_parent_index) ==
    /\ status = "ok"
    /\ Built(xi_data, xi_parent_index) \in FlatTree_vectors(xi_data, xi_parent_index)
    /\ visits' = NoVisits
    /\ m_data' = xi_data
    /\ m_parent_index' = xi_parent_index
    /\ Returned("operator=", Len(xi_parent_index), xi_data, "none", 0)

(* --------------------------- specifications --------------------------- *)

\* The payload of a new node.  The code never looks into a T, so one payload
\* per insertion is enough: the least positive integer that no node holds,
\* which keeps the payloads of the nodes of a tree distinct.
Fresh(k) ==
    CHOOSE v \in 1..(Len(m_data) + k) :
        /\ v \notin Range(m_data)
        /\ Cardinality({w \in 1..(v - 1) : w \notin Range(m_data)}) = k - 1

\* FlatTree(const T&): a tree which only has a root
Init ==
    /\ m_data = <<1>>
    /\ m_parent_index = <<0>>
    /\ status = "ok"
    /\ lastOp = "FlatTree"
    /\ lastArg = 0
    /\ lastVals = m_data
    /\ lastRet = "none"
    /\ lastNum = 0
    /\ visits = NoVisits

\* insert, insert of a collection, remove and clear, on trees of at most cap nodes
Mutate(cap) ==
    \/ \E i \in 0..cap : insert(cap, i, Fresh(1))
    \/ \E i \in 0..cap, n \in 0..MaxMany : insert_many(cap, i, [k \in 1..n |-> Fresh(k)])
    \/ \E i \in 0..cap : remove(i)
    \/ clear(cap)

Next ==
    \/ Mutate(MaxLen)
    \/ \E n \in 0..MaxLen : resize(n)

Spec == Init /\ [][Next]_vars

NextDeep == Mutate(DeepLen)

SpecDeep == Init /\ [][NextDeep]_vars

\* the operators of the test program next to the methods they call
NextOperators ==
    \/ Mutate(MaxLen)
    \/ \E i \in 0..MaxLen : ShiftIn(MaxLen, i, Fresh(1))
    \/ \E i \in 0..MaxLen, n \in 0..MaxMany : ShiftInMany(MaxLen, i, [k \in 1..n |-> Fresh(k)])
    \/ \E i \in 0..MaxLen : ShiftOut(i)
    \/ \E xi_nodes \in UNION {[1..n -> 0..MaxLen] : n \in 0..MaxMany} : ShiftOutMany(xi_nodes)
    \/ \E i \in 0..MaxLen : AllDescendants(i)

SpecOperators == Init /\ [][NextOperators]_vars

NextTraverse ==
    \/ Mutate(MaxLen)
    \/ \E i \in 0..MaxLen, e \in {"seq", "par"}, f \in {"read", "underscore", "number"} : Traverse(i, e, f)

SpecTraverse == Init /\ [][NextTraverse]_vars

\* the tree of the test program (src/main.cpp, traverseTreeTest), payloads 1..8
ExampleData == [k \in 1..8 |-> k]
ExampleParents == <<0, 0, 0, 1, 1, 1, 2, 2>>

\* the collections handed to a constructor
CtorInputs ==
    {<<[k \in 1..n |-> k], ps>> :
        n \in 0..CtorLen, ps \in UNION {[1..m -> 0..(CtorLen - 1)] : m \in 0..CtorLen}}
    \cup {<<ExampleData, ExampleParents>>}

\* the collections of the trees assigned from: the short ones and the example
AssignInputs ==
    {in \in CtorInputs : Len(in[1]) <= AssignLen} \cup {<<ExampleData, ExampleParents>>}

InitCtor ==
    \E in \in CtorInputs, kind \in {"FlatTree_collections", "FlatTree_vectors"} :
       \E made \in (IF kind = "FlatTree_vectors"
                    THEN FlatTree_vectors(in[1], in[2])
                    ELSE FlatTree_collections(in[1], in[2])) :
          /\ m_data = made.d
          /\ m_parent_index = made.p
          /\ status = made.status
          /\ lastOp = kind
          /\ lastArg = Len(in[2])
          /\ lastVals = in[1]
          /\ lastRet = "none"
          /\ lastNum = 0
          /\ visits = NoVisits

NextCtor ==
    \/ \E i \in 0..Len(m_data) : NumOfDescendants(i)
    \/ \E i \in 0..Len(m_data) : isLeaf(i)
    \/ \E i \in 0..Len(m_data) : getParentIndex(i)
    \/ \E i \in 0..Len(m_data) : doesIndexExist(i)
    \/ \E i \in 0..Len(m_data) : Subscript(i)
    \/ \E i \in 0..Len(m_data) : SubscriptAssign(i, DefaultT)
    \/ \E in \in AssignInputs : Assign(in[1], in[2])

SpecCtor == InitCtor /\ [][NextCtor]_vars

\* parent indices of a large tree: every node under the root, every node
\* under the node before it, or every node under the node at half its index
LargeParents(shape, n) ==
    [k \in 1..n |-> IF k = 1 THEN 0
                    ELSE IF shape = "star" THEN 0
                    ELSE IF shape = "chain" THEN k - 2
                    ELSE (k - 2) \div 2]

\* trees on either side of size_for_parallelization, next to the small ones
CountInputs ==
    CtorInputs
    \cup {<<[k \in 1..n |-> k], LargeParents(shape, n)>> :
             shape \in {"star", "chain", "heap"},
             n \in (size_for_parallelization - 1)..(size_for_parallelization + 1)}

InitCount ==
    \E in \in CountInputs :
       \E made \in FlatTree_vectors(in[1], in[2]) :
          /\ m_data = made.d
          /\ m_parent_index = made.p
          /\ status = made.status
          /\ lastOp = "FlatTree_vectors"
          /\ lastArg = Len(in[2])
          /\ lastVals = in[1]
          /\ lastRet = "none"
          /\ lastNum = 0
          /\ visits = NoVisits

\* the indices asked about: the first ones and the last one, and one past it
CountArgs == {i \in (0..CtorLen) \cup {Len(m_data) - 1, Len(m_data)} : i >= 0}

NextCount ==
    \/ \E i \in CountArgs : NumOfDescendants(i)
    \/ \E i \in CountArgs : isLeaf(i)

SpecCount == InitCount /\ [][NextCount]_vars

(* ------------------------- vocabulary of the claims ------------------- *)

Size == Len(m_data)
Distinct(s) == \A a, b \in DOMAIN s : (a # b) => (s[a] # s[b])

\* the parent an index leads to; an index that is no node leads nowhere
ParentOf(p, i) == IF i < Len(p) THEN At(p, i) ELSE i

\* the index reached from i by n parent lookups
RECURSIVE Climb(_, _, _)
Climb(p, i, n) == IF n = 0 THEN i ELSE Climb(p, ParentOf(p, i), n - 1)

\* the nodes below a: the non-root indices whose parent chain passes through a
Below(p, a) == {i \in 1..(Len(p) - 1) : \E n \in 1..Len(p) : Climb(p, i, n) = a}

\* invariants 1-4 of the data model
DataModel(d, p) ==
    /\ Len(d) = Len(p)
    /\ Len(d) >= 1
    /\ At(p, 0) = 0
    /\ \A i \in 1..(Len(p) - 1) : (At(p, i) < Len(p)) /\ (Climb(p, i, Len(p)) = 0)

VisitCount(i) == IF i \in DOMAIN visits THEN visits[i] ELSE 0

(* -------------------------------- claims ------------------------------ *)

\* C1: after every public operation (insert, insert of a collection, remove,
\* clear, resize(n) for any n >= 0) the tree is structurally valid: both
\* vectors have the same length, there is at least a root, and the root's
\* parent index is 0.
C1_StructurallyValid ==
    (status = "ok") =>
        /\ Len(m_data) = Len(m_parent_index)
        /\ Len(m_data) >= 1
        /\ At(m_parent_index, 0) = 0

\* C2: without resize, every non-root node has a parent index below the size,
\* and its parent chain reaches the root (no dangling parent, no cycle).
C2_ParentChainsReachRoot ==
    (status = "ok") =>
        \A i \in 1..(Size - 1) :
            /\ At(m_parent_index, i) < Size
            /\ Climb(m_parent_index, i, Size) = 0

\* C3: a remove(0) that returns is rejected: it returns false and leaves
\* m_data and m_parent_index exactly as they were.
C3_RootRemovalRejected ==
    [][(lastOp' = "remove" /\ lastArg' = 0 /\ status' = "ok")
          => (lastRet' = "false" /\ UNCHANGED <<m_data, m_parent_index>>)]_vars

\* C4: after remove(i) returns true, no node that was below i before the call
\* is still stored (nodes told apart by their payloads).
C4_DescendantsGone ==
    [][(lastOp' = "remove" /\ lastRet' = "true" /\ Distinct(m_data)
           /\ DataModel(m_data, m_parent_index))
          => \A k \in Below(m_parent_index, lastArg') :
                At(m_data, k) \notin Range(m_data')]_vars

\* C5: after remove(i) returns true, or tree >> i returns, for a non-root i,
\* the node that was stored at i is gone as well: its payload is no longer in
\* the tree.
C5_TargetGone ==
    [][(((lastOp' = "remove" /\ lastRet' = "true") \/ (lastOp' = "operator>>" /\ status' = "ok"))
           /\ lastArg' >= 1 /\ Distinct(m_data)
           /\ DataModel(m_data, m_parent_index))
          => At(m_data, lastArg') \notin Range(m_data')]_vars

\* C6: a constructor call on two collections leaves a tree only if the
\* collections have equal length and the first parent index is 0.
C6_ConstructionChecked ==
    (lastOp \in {"FlatTree_collections", "FlatTree_vectors"} /\ status = "ok"
        /\ Len(m_parent_index) >= 1)
        => (Len(m_data) = Len(m_parent_index) /\ At(m_parent_index, 0) = 0)

\* C7: on a valid tree, insert(parent, value) with parent < len returns true,
\* appends (value, parent) as the new last node, so that the parent index of
\* node len-1 is parent, and leaves every earlier slot as it was.
C7_InsertAppends ==
    [][(lastOp' = "insert" /\ lastArg' < Size /\ isValid(m_data, m_parent_index))
          => /\ lastRet' = "true"
             /\ Len(m_data') = Size + 1
             /\ Len(m_parent_index') = Size + 1
             /\ At(m_data', Size) = lastVals'[1]
             /\ At(m_parent_index', Size) = lastArg'
             /\ SubSeq(m_data', 1, Size) = m_data
             /\ SubSeq(m_parent_index', 1, Size) = m_parent_index]_vars

\* a node has been inserted under a non-root parent
C7_Witness ==
    /\ lastOp = "insert" /\ lastRet = "true" /\ lastArg >= 1
    /\ Size >= 3
    /\ At(m_parent_index, Size - 1) = lastArg
    /\ At(m_data, Size - 1) = lastVals[1]

\* C8: insert and insert of a collection with parent >= len, remove with
\* target >= len and remove of a non-root node without children return false;
\* and whenever one of the three returns false, both vectors are unchanged.
C8_FailureLeavesTreeAlone ==
    [][/\ (lastOp' \in {"insert", "insert_many", "remove"} /\ lastRet' = "false")
            => UNCHANGED <<m_data, m_parent_index>>
       /\ (lastOp' \in {"insert", "insert_many", "remove"} /\ lastArg' >= Size)
            => lastRet' = "false"
       /\ (lastOp' = "remove" /\ lastArg' \in 1..(Size - 1)
             /\ \A k \in 0..(Size - 1) : At(m_parent_index, k) # lastArg')
            => lastRet' = "false"]_vars

\* remove of a leaf that is not the root has returned false
C8_Witness ==
    /\ lastOp = "remove" /\ lastRet = "false"
    /\ lastArg \in 1..(Size - 1)
    /\ \A k \in 0..(Size - 1) : At(m_parent_index, k) # lastArg

\* C9: on a tree that satisfies the data model, Traverse(start) with
\* start < len returns, having called the visitor exactly once on every node
\* below start and on no other node.
C9_TraverseVisitsDescendantsOnce ==
    (lastOp = "Traverse" /\ DataModel(m_data, m_parent_index) /\ lastArg < Size)
        => /\ status = "ok"
           /\ \A i \in 0..(Size - 1) :
                VisitCount(i) = IF i \in Below(m_parent_index, lastArg) THEN 1 ELSE 0

IsExample == (status = "ok") /\ (m_data = ExampleData) /\ (m_parent_index = ExampleParents)

\* what the example tree answers to the six queries, given the count for the root
ExampleAnswers(rootCount) ==
    /\ (lastOp = "getNumOfDescendants" /\ lastArg = 0) => (lastNum = rootCount)
    /\ (lastOp = "getNumOfDescendants" /\ lastArg = 1) => (lastNum = 3)
    /\ (lastOp = "getNumOfDescendants" /\ lastArg = 2) => (lastNum = 2)
    /\ (lastOp = "isLeaf" /\ lastArg = 3) => (lastRet = "true")
    /\ (lastOp = "isLeaf" /\ lastArg = 0) => (lastRet = "false")
    /\ (lastOp = "getParentIndex" /\ lastArg = 5) => (lastNum = 1)

\* C10, as claimed: on the example tree the root has 2 descendants (its own
\* slot not counted), node 1 has 3, node 2 has 2, node 3 is a leaf, the root is
\* not, and the parent of node 5 is 1.
C10_ExampleRootCountsTwo == IsExample => ExampleAnswers(2)

\* C10, amended: the same answers, but the count for the root is 3: slot 0
\* holds parent index 0 and is counted.
C10_ExampleRootCountsThree == IsExample => ExampleAnswers(3)

\* the descendants of the root of the example tree have been counted
C10_Witness ==
    IsExample /\ lastOp = "getNumOfDescendants" /\ lastArg = 0 /\ lastNum = 3

\* C11: getNumOfDescendants(p) answers with the number of slots 0..size-1
\* (slot 0 included) whose stored parent index is p; counting the range in
\* one pass and counting it in parts give the same number; a root with c
\* children therefore answers c + 1, and on the tree of the test program
\* both index 0 and index 1 answer 3.
C11_CountsEverySlot ==
    (lastOp = "getNumOfDescendants" /\ status = "ok") =>
        /\ lastNum = Cardinality({k \in 0..(Size - 1) : At(m_parent_index, k) = lastArg})
        /\ getNumOfDescendantsSequential(m_parent_index, lastArg)
              = getNumOfDescendantsParallel(m_parent_index, lastArg)
        /\ (lastArg = 0 /\ Size >= 1 /\ At(m_parent_index, 0) = 0) =>
              lastNum = Cardinality({k \in 1..(Size - 1) : At(m_parent_index, k) = 0}) + 1
        /\ (m_parent_index = ExampleParents /\ lastArg \in {0, 1}) => lastNum = 3

\* the root of a tree that is counted in parts has answered
C11_Witness ==
    /\ lastOp = "getNumOfDescendants"
    /\ status = "ok"
    /\ Size >= size_for_parallelization
    /\ lastArg = 0
    /\ lastNum = Size

\* C12: on every tree that satisfies the data model, getAllDescendants
\* returns for every start index below the length (and so remove and
\* Traverse, which call it first, return as well).
C12_AllDescendantsReturns ==
    (status = "ok" /\ DataModel(m_data, m_parent_index)) =>
        \A start \in 0..(Size - 1) :
            \A g \in getAllDescendants(m_data, m_parent_index, start, <<>>, Size, StackDepth) :
                ~g.overflow

\* how often the payload v is stored in s
Copies(s, v) == Cardinality({k \in DOMAIN s : s[k] = v})

\* C13: after remove(i) returns true for a non-root i, the payloads stored
\* are those stored before less the payloads of the nodes that were below i
\* (as multisets), and the length went down by the number of those nodes.
C13_OnlyDescendantsLeave ==
    [][(lastOp' = "remove" /\ lastRet' = "true" /\ lastArg' >= 1
           /\ DataModel(m_data, m_parent_index))
          => LET gone == Below(m_parent_index, lastArg')
             IN  /\ Len(m_data') = Len(m_data) - Cardinality(gone)
                 /\ \A v \in Range(m_data) \cup Range(m_data') :
                        Copies(m_data', v)
                          = Copies(m_data, v) - Cardinality({k \in gone : At(m_data, k) = v})]_vars

\* C14: whatever index remove(i) is called with, every index its loop hands
\* to remove_node is below the size the tree has at that moment.
C14_RemovedIndicesInRange ==
    (status = "ok" /\ DataModel(m_data, m_parent_index)) =>
        \A target \in 0..(Size - 1) :
            \A g \in getAllDescendants(m_data, m_parent_index, target, <<>>, Size, StackDepth) :
                (~Ended(g) /\ g.ret) =>
                    \A t \in RemoveDescendants([d |-> m_data, p |-> m_parent_index,
                                                capd |-> Size, capp |-> Size,
                                                oob |-> FALSE, status |-> "ok"], g.out, 1) :
                        ~t.oob

\* C15: when remove(i) returns true and the only node below i was stored at
\* d, before the last slot, then afterwards the tree is one slot shorter,
\* slot d holds the payload and the parent index that the last slot held, and
\* every other slot holds the payload and the parent index it held before.
\* (Under the root the case needs a tree of two nodes, whose second node is
\* in the last slot, so i is not the root.)
C15_LastMovesIntoGap ==
    [][(lastOp' = "remove" /\ lastRet' = "true" /\ lastArg' >= 1)
          => \A d \in 1..(Size - 2) :
                (Below(m_parent_index, lastArg') = {d}) =>
                    /\ Len(m_data') = Size - 1
                    /\ Len(m_parent_index') = Size - 1
                    /\ \A k \in 0..(Size - 2) :
                          /\ At(m_data', k)
                               = At(m_data, IF k = d THEN Size - 1 ELSE k)
                          /\ At(m_parent_index', k)
                               = At(m_parent_index, IF k = d THEN Size - 1 ELSE k)]_vars

\* remove(1) took node 3 out of slot 2 and node 4, a child of the root, moved
\* from slot 3 into slot 2
C15_Witness ==
    /\ lastOp = "remove" /\ lastRet = "true" /\ lastArg = 1
    /\ m_data = <<1, 2, 4>>
    /\ m_parent_index = <<0, 0, 0>>

====
